---- MODULE Spec2Model ----
(***************************************************************************)
(* Notelock (src/app.js): an in-memory one-time note store behind an       *)
(* Express server.  POST /encrypt stores a ciphertext under a fresh id,    *)
(* GET /?n=id hands the ciphertext out and purges it, and a recurring      *)
(* timer purges old rows.                                                  *)
(*                                                                         *)
(* Time is counted in whole hours since 00:00 UTC of day 0, and the model   *)
(* looks at the system every TickHours hours.  A JavaScript                *)
(* value is a record [t |-> type, v |-> text].  A text timestamp is the    *)
(* sequence <<date, separator character code, hour>>: the date stands for  *)
(* the zero-padded 'YYYY-MM-DD' prefix, whose text order is the order of   *)
(* the dates, and the minute and second fields, which are zero on the      *)
(* hour, are left out.                                                     *)
(*                                                                         *)
(* Both request handlers are async functions.  Each `await` is a           *)
(* suspension point: the code after it runs as a continuation.  The store  *)
(* functions are synchronous, so every await is on a plain value and its   *)
(* continuation is a microtask: the continuations run in the order of     *)
(* their awaits, before the next task and before any timer callback.  One  *)
(* task may dispatch more than one request (requests pipelined on one      *)
(* connection arrive in one read): each handler runs up to its first       *)
(* await before any continuation runs, so the handlers of one task         *)
(* interleave at their awaits, and no request of a later task and no       *)
(* setInterval callback runs until all of them have returned.  The         *)
(* suspended handlers are kept as a bag of their local variables, `loop`   *)
(* holds the order of their continuations, and `last` holds the request    *)
(* that was answered in the step just taken.                               *)
(***************************************************************************)
EXTENDS Integers, Sequences, FiniteSets, Bags, TLC

\* ------------------------------------------------------------------ bounds
MaxRecords  == 2      \* rows inserted over one behaviour
MaxTicks    == 2      \* steps of the clock over one behaviour
MaxSpan     == 1      \* long steps of the clock over one behaviour
MaxOverlaps == 1      \* requests, over one behaviour, dispatched by a task
                      \* that has dispatched one before

\* ------------------------------------------------------- program constants
noteLife    == 24     \* lifetime of notes, in hours
IdLen       == 21     \* length of a nanoid() identifier
HoursPerDay == 24
CharT       == 84     \* 'T', the separator of Date.prototype.toISOString
CharSpace   == 32     \* ' ', the separator of SQLite datetime()
spdTimeWindow   == 15   \* slowdown window, in minutes
spdMaxRequests  == 1    \* requests in a window before the delay starts
spdMaxDelayTime == 10   \* largest delay, in seconds
encTimeWindow   == 30   \* window of the encryption limit, in minutes
encMaxRequests  == 10   \* encryption requests allowed in a window
reqTimeWindow   == 15   \* window of the general limit, in minutes
reqMaxRequests  == 100  \* requests allowed in a window

\* the model looks at the system every TickHours hours: one hour more than
\* the lifetime of a note, so that a note is past its lifetime one step
\* after its insertion, at a time of day that moves from step to step
TickHours == noteLife + 1

\* ------------------------------------------------------- JavaScript values
\* text is a sequence of character codes
Str(s)      == [t |-> "string", v |-> s]
JsFalse     == [t |-> "boolean", v |-> <<>>]
JsUndefined == [t |-> "undefined", v |-> <<>>]
JsNull      == [t |-> "null", v |-> <<>>]

\* the info object of Statement.run(): { changes, lastInsertRowid }
RunInfo(changes) == [t |-> "object", v |-> <<>>, changes |-> changes]

\* the test of `if (value)`: of the values here, an object and a non-empty
\* string pass; false, undefined, null and the empty string do not
Truthy(val) == val.t = "object" \/ (val.t = "string" /\ val.v # <<>>)

\* ------------------------------------------------------------- identifiers
IdX == [i \in 1..IdLen |-> 1]
IdY == [i \in 1..IdLen |-> 2]
\* the values nanoid() may return
Ids == {IdX, IdY}
\* the values of req.query.n: absent, an id, an id followed by more text
Queries == {<<>>, IdX, IdY, IdX \o <<3>>}
\* the values of req.body.cipher: absent, empty, a ciphertext
Ciphers == {JsUndefined, Str(<<>>), Str(<<7>>)}

Min(a, b) == IF a < b THEN a ELSE b

\* substring that keeps the whole text
substringWhole(s, n) == s
\* String.prototype.substring(0, n)
substring(s, n) == SubSeq(s, 1, Min(n, Len(s)))

\* -------------------------------------------------------------- timestamps
\* new Date().toISOString() at hour now: 'YYYY-MM-DDTHH:...Z'
getTimeStamp(now) == <<now \div HoursPerDay, CharT, now % HoursPerDay>>

\* sqliteDatetime with the sign of the modifier slipped: '+<hours> hours'
sqliteDatetimeAhead(now, hours) ==
    <<(now + hours) \div HoursPerDay, CharSpace, (now + hours) % HoursPerDay>>

\* SQLite datetime('now', '-<hours> hours'): 'YYYY-MM-DD HH:MM:SS'
sqliteDatetime(now, hours) ==
    <<(now - hours) \div HoursPerDay, CharSpace, (now - hours) % HoursPerDay>>

\* a < b on TEXT values (BINARY collation: the first differing character)
RECURSIVE TextLess(_, _)
TextLess(a, b) ==
    IF b = <<>> THEN FALSE
    ELSE IF a = <<>> THEN TRUE
    ELSE IF Head(a) < Head(b) THEN TRUE
    ELSE IF Head(a) > Head(b) THEN FALSE
    ELSE TextLess(Tail(a), Tail(b))

VARIABLES
    rows,        \* table notelock, in rowid order
    clock,       \* the current hour
    exInterval,  \* configured sweep interval (minutes)
    handlers,    \* the suspended handlers: a bag of their local variables
    loop,        \* the microtask queue, whether the task that filled it
                 \* still runs, and how many requests have joined a task
    last,        \* the request answered in the step just taken, and its response
    idOf,        \* history: the uuid each row was inserted under
    fate,        \* history: what became of each row
    reads,       \* history: how often each row's note was sent to a reader
    nextRid,     \* history: rows inserted so far, plus one
    limits,      \* the hit counters of the three limiting middlewares
    minute,      \* minutes passed since the hour of `clock`
    gate,        \* what the middleware chain did with the request it handled last
    held,        \* the requests speedLimiter holds back on its timers
    up,          \* the server process is running
    attempts,    \* history: candidate ids drawn by the submit in flight
    asked,       \* history: req.query.n of the retrieve that arrived last
    browser      \* the page of a sender: encryptMessage, its locals and its link

\* the state outside the store and its handlers
env == <<limits, minute, gate, held, up, attempts, asked, browser>>

vars == <<rows, clock, exInterval, handlers, loop, last, idOf, fate, reads,
          nextRid, limits, minute, gate, held, up, attempts, asked,
          browser>>

Rids == 1..MaxRecords

\* a finished request: its method, the noteId of a retrieve and whether its
\* find met a row, the branch the handler took (outcome) and the response:
\* the view rendered with its cipher, or the id of the JSON body
NoLast == [method |-> "none", noteId |-> <<>>, met |-> FALSE,
           outcome |-> "none", view |-> "none", sent |-> JsUndefined,
           id |-> <<>>, reason |-> "", time |-> 0, error |-> "",
           log |-> "none"]

\* the locals of a suspended handler: the await it is suspended at (pc),
\* req.body.cipher of a POST (input), noteId, the value awaited from
\* dbFindData (cipherText) and, as history, the row a retrieve's find read
\* (seen; 0: none)
Handler(at, c, id, found, rid) ==
    [pc |-> at, input |-> c, noteId |-> id, cipherText |-> found, seen |-> rid]

\* ------------------------------------------------------------------ store
\* the rows a WHERE uuid = ? selects
RowsOf(table, uuid) == SelectSeq(table, LAMBDA r : r.uuid = uuid)

\* dbFindData: SELECT * ... WHERE uuid = ? ; get() is the first row
dbFindData(table, uuid) ==
    IF RowsOf(table, uuid) # <<>>
    THEN Head(RowsOf(table, uuid)).note
    ELSE JsFalse

\* the row dbFindData read (history)
FoundRid(table, uuid) ==
    IF RowsOf(table, uuid) # <<>> THEN Head(RowsOf(table, uuid)).rid ELSE 0

\* the value insert.run() binds: undefined is bound as NULL, which a later
\* SELECT reads as null
bind(val) == IF val.t = "undefined" THEN JsNull ELSE val

\* dbAddData: INSERT ... VALUES (newID, cipherText, getTimeStamp())
dbAddData(table, newID, text, now, rid) ==
    Append(table, [uuid |-> newID, note |-> bind(text),
                   created |-> getTimeStamp(now), rid |-> rid])

\* dbDeleteValue with the wrong column in its WHERE clause: note = ?
dbDeleteValueWrongColumn(table, uuid) ==
    SelectSeq(table, LAMBDA r : r.note.v # uuid)

\* dbDeleteValue: DELETE ... WHERE uuid = ?
dbDeleteValue(table, uuid) == SelectSeq(table, LAMBDA r : r.uuid # uuid)

\* del.run(primaryKeyId): the number of rows the DELETE removed
delRun(table, uuid) == RunInfo(Len(table) - Len(dbDeleteValue(table, uuid)))

\* what dbDeleteValue writes to the console: `if (delValue)` logs "Purged",
\* the other branch is console.error
deleteLog(table, uuid) ==
    IF Truthy(delRun(table, uuid)) THEN "purged" ELSE "error"

\* Expired with the modifier of datetime() left out: created < datetime('now')
ExpiredSinceNow(r, now) == TextLess(r.created, sqliteDatetime(now, 0))
\* the WHERE clause of dbExpireValue
Expired(r, now) == TextLess(r.created, sqliteDatetime(now, noteLife))

\* dbExpireValue: DELETE ... WHERE created < datetime('now', '-24 hours')
dbExpireValue(table, now) == SelectSeq(table, LAMBDA r : ~Expired(r, now))

\* expireInterval > 0, the test that starts the recurring sweep
expireInterval(interval) == interval * 60 * 1000
\* SweepEnabled with the test slipped to >= 0
SweepEnabledAlways(interval) == expireInterval(interval) >= 0
SweepEnabled(interval) == expireInterval(interval) > 0

RidsIn(table) == {table[i].rid : i \in 1..Len(table)}

\* the hour a row was inserted, read back from its timestamp
BornAt(r) == r.created[1] * HoursPerDay + r.created[3]



\* ------------------------------------------------------------ the limiters
\* the values of req.ip
Clients == {"a", "b"}

\* windowMs of a limiter whose window is given in minutes
windowMs(w) == w * 60 * 1000

\* Date.now() at `mins` minutes past hour `hour`
nowMs(hour, mins) == (hour * 60 + mins) * 60 * 1000

\* a client the store of a limiter has no entry for
NoHits == [totalHits |-> 0, resetTime |-> 0]

\* the store of a limiter counts a request of client key at time now: a
\* window that has run out is opened again, from now, with no hits
increment(store, key, now, window) ==
    LET client == IF store[key].resetTime <= now
                  THEN [totalHits |-> 0, resetTime |-> now + window]
                  ELSE store[key]
    IN  [store EXCEPT ![key] = [client EXCEPT !.totalHits = @ + 1]]

\* exceeded with the test slipped to >=
exceededAtCap(hits, max) == hits >= max
\* rateLimit({ max }): the request is over the limit, its handler answers
exceeded(hits, max) == hits > max

\* delayMs counting from the request after the first delayed one
delayMsPastSecond(hits) == (hits - spdMaxRequests - 1) * 100
\* delayMs: (hits) => (hits - spdMaxRequests) * 100
delayMs(hits) == (hits - spdMaxRequests) * 100

\* maxDelayMs: spdMaxDelayTime * 1000
maxDelayMs == spdMaxDelayTime * 1000

\* slowDownDelay without maxDelayMs
slowDownDelayUncapped(hits) ==
    IF hits > spdMaxRequests THEN delayMs(hits) ELSE 0
\* slowDown({ delayAfter, delayMs, maxDelayMs }): the delay, in
\* milliseconds, before the request with this hit count is passed on
slowDownDelay(hits) ==
    IF hits > spdMaxRequests THEN Min(delayMs(hits), maxDelayMs) ELSE 0

\* ---------------------------------------------------------- initial state
\* no request has arrived yet
NoGate == [n |-> 0, client |-> "none", method |-> "none", path |-> "none",
           verdict |-> "none", delay |-> 0]

\* the page of the sender before encryptMessage runs: the await the
\* function is suspended at (pc), its locals, the request or response that
\* is on its way between page and server (wire), and the link shown
NoBrowser == [pc |-> "idle", message |-> <<>>, iv |-> <<>>, key |-> <<>>,
              urlKey |-> <<>>, ciphertext |-> <<>>,
              body |-> [cipher |-> <<>>], wire |-> "none", reply |-> <<>>,
              url |-> <<>>]

\* the limiters have seen no client, and the server is up
ColdStart ==
    /\ limits = [p \in {"req", "spd", "enc"} |-> [cl \in Clients |-> NoHits]]
    /\ minute = 0
    /\ gate = NoGate
    /\ held = <<>>
    /\ up = TRUE
    /\ attempts = 0
    /\ asked = <<>>
    /\ browser = NoBrowser

\* the store is empty and no handler runs
StoreInit ==
    /\ rows = <<>>
    /\ clock = 0
    /\ exInterval \in {0, 5}
    /\ handlers = EmptyBag
    /\ loop = [jobs |-> <<>>, open |-> FALSE, joined |-> 0]
    /\ last = NoLast
    /\ idOf = [r \in Rids |-> <<>>]
    /\ fate = [r \in Rids |-> "none"]
    /\ reads = [r \in Rids |-> 0]
    /\ nextRid = 1

Init == StoreInit /\ ColdStart

\* the limiters, the process and the history of the generator stay as they are
Idle == UNCHANGED env

\* the handlers that are suspended at an await
Suspended == BagToSet(handlers)
\* no continuation is pending
Quiet == Suspended = {}

\* the number of handlers of bag b whose locals are in S
Waiting(b, S) == BagCardinality([hr \in BagToSet(b) \cap S |-> b[hr]])

\* a request is dispatched: by a task of its own when the loop is at rest,
\* or by the task that dispatched the suspended handlers, as long as that
\* task runs, which is until the first continuation does
Arrives ==
    \/ Quiet
    \/ loop.open /\ loop.joined < MaxOverlaps

PostsInFlight ==
    Waiting(handlers, {x \in Suspended : x.pc = "postAwaitFind"})

\* the requests that have joined a task, the one that arrives counted
Joined == loop.joined + (IF Quiet THEN 0 ELSE 1)

\* the continuation that runs next is the one of the handler with locals hr
IsNext(hr) == loop.jobs # <<>> /\ Head(loop.jobs) = hr

\* a handler reaches its first await with locals hr: its continuation is
\* queued behind those that wait
Suspend(hr) ==
    /\ handlers' = handlers (+) SetToBag({hr})
    /\ loop' = [jobs |-> Append(loop.jobs, hr), open |-> TRUE,
                joined |-> Joined]
\* the handler suspended with locals hr runs on to an await with locals to,
\* and is queued again
Resume(hr, to) ==
    /\ IsNext(hr)
    /\ handlers' = (handlers (-) SetToBag({hr})) (+) SetToBag({to})
    /\ loop' = [loop EXCEPT !.jobs = Append(Tail(loop.jobs), to),
                            !.open = FALSE]
\* the handler suspended with locals hr runs on and returns
Return(hr) ==
    /\ IsNext(hr)
    /\ handlers' = handlers (-) SetToBag({hr})
    /\ loop' = [loop EXCEPT !.jobs = Tail(loop.jobs), !.open = FALSE]

\* ------------------------------------------------------- POST /encrypt
\* the handler up to its first await: noteId = nanoid(); dbFindData(noteId)
StartPost(c, id) ==
    /\ nextRid + PostsInFlight <= MaxRecords
    /\ Arrives
    /\ Suspend(Handler("postAwaitFind", c, id, dbFindData(rows, id), 0))
    /\ last' = NoLast
    /\ UNCHANGED <<rows, clock, exInterval, idOf, fate, reads, nextRid>>

\* after `await dbFindData(noteId)`, the id is taken: the loop draws again
PostRetry(hr, id) ==
    /\ hr.pc = "postAwaitFind"
    /\ Truthy(hr.cipherText)
    /\ Resume(hr, Handler("postAwaitFind", hr.input, id,
                          dbFindData(rows, id), 0))
    /\ last' = NoLast
    /\ UNCHANGED <<rows, clock, exInterval, idOf, fate, reads, nextRid>>

\* after `await dbFindData(noteId)`, the id is free: dbAddData(noteId,
\* note.cipher) up to its await; of the locals only noteId is read later
PostInsert(hr) ==
    /\ hr.pc = "postAwaitFind"
    /\ ~Truthy(hr.cipherText)
    /\ rows' = dbAddData(rows, hr.noteId, hr.input, clock, nextRid)
    /\ idOf' = [idOf EXCEPT ![nextRid] = hr.noteId]
    /\ fate' = [fate EXCEPT ![nextRid] = "live"]
    /\ nextRid' = nextRid + 1
    /\ Resume(hr, Handler("postAwaitAdd", JsUndefined, hr.noteId, JsFalse, 0))
    /\ last' = NoLast
    /\ UNCHANGED <<clock, exInterval, reads>>

\* after `await dbAddData(...)`: res.json({ id: noteUrl })
PostRespond(hr) ==
    /\ hr.pc = "postAwaitAdd"
    /\ last' = [NoLast EXCEPT !.method = "POST", !.outcome = "posted",
                              !.view = "json", !.id = hr.noteId]
    /\ Return(hr)
    /\ UNCHANGED <<rows, clock, exInterval, idOf, fate, reads, nextRid>>

\* ---------------------------------------------------------------- GET /
\* the handler with a note to decrypt, up to `await dbFindData(noteId)`
StartGet(n) ==
    /\ Truthy(Str(n))
    /\ Arrives
    /\ Suspend(Handler("getAwaitFind", JsUndefined, substring(n, IdLen),
                       dbFindData(rows, substring(n, IdLen)),
                       FoundRid(rows, substring(n, IdLen))))
    /\ last' = NoLast
    /\ UNCHANGED <<rows, clock, exInterval, idOf, fate, reads, nextRid>>

\* the handler without a note: the website is rendered
GetIndex ==
    /\ Arrives
    /\ last' = [NoLast EXCEPT !.method = "GET", !.outcome = "index",
                              !.view = "index.ejs"]
    /\ loop' = [loop EXCEPT !.joined = Joined]
    /\ UNCHANGED <<rows, clock, exInterval, handlers, idOf, fate, reads,
                   nextRid>>

\* the history of the rows after the reader was sent row `sent` and the
\* table became `table`: a live row that was sent is consumed, any other
\* row that left the table is purged unread
FateAfterDelete(table, sent) ==
    [r \in Rids |->
        IF fate[r] # "live" THEN fate[r]
        ELSE IF r = sent THEN "consumed"
        ELSE IF r \notin RidsIn(table) THEN "purged"
        ELSE "live"]

\* GetFound whose delete has no WHERE clause
GetFoundDeleteAll(hr) ==
    /\ hr.pc = "getAwaitFind"
    /\ Truthy(hr.cipherText)
    /\ last' = [NoLast EXCEPT !.method = "GET",
                              !.noteId = hr.noteId, !.met = (hr.seen # 0),
                              !.outcome = "note", !.view = "note.ejs",
                              !.sent = hr.cipherText]
    /\ rows' = <<>>
    /\ fate' = FateAfterDelete(rows', hr.seen)
    /\ reads' = [reads EXCEPT ![hr.seen] = @ + 1]
    /\ Return(hr)
    /\ UNCHANGED <<clock, exInterval, idOf, nextRid>>
\* after the await, a note was found: render it, then dbDeleteValue(noteId)
GetFound(hr) ==
    /\ hr.pc = "getAwaitFind"
    /\ Truthy(hr.cipherText)
    /\ last' = [NoLast EXCEPT !.method = "GET",
                              !.noteId = hr.noteId, !.met = (hr.seen # 0),
                              !.outcome = "note", !.view = "note.ejs",
                              !.sent = hr.cipherText,
                              !.log = deleteLog(rows, hr.noteId)]
    /\ rows' = dbDeleteValue(rows, hr.noteId)
    /\ fate' = FateAfterDelete(rows', hr.seen)
    /\ reads' = [reads EXCEPT ![hr.seen] = @ + 1]
    /\ Return(hr)
    /\ UNCHANGED <<clock, exInterval, idOf, nextRid>>

\* GetNotFound rendering the awaited value instead of the empty cipher
GetNotFoundPassThrough(hr) ==
    /\ hr.pc = "getAwaitFind"
    /\ ~Truthy(hr.cipherText)
    /\ last' = [NoLast EXCEPT !.method = "GET",
                              !.noteId = hr.noteId, !.met = (hr.seen # 0),
                              !.outcome = "notfound", !.view = "note.ejs",
                              !.sent = hr.cipherText]
    /\ Return(hr)
    /\ UNCHANGED <<rows, clock, exInterval, idOf, fate, reads, nextRid>>

\* after the await, nothing was found: render the empty note
GetNotFound(hr) ==
    /\ hr.pc = "getAwaitFind"
    /\ ~Truthy(hr.cipherText)
    /\ last' = [NoLast EXCEPT !.method = "GET",
                              !.noteId = hr.noteId, !.met = (hr.seen # 0),
                              !.outcome = "notfound", !.view = "note.ejs",
                              !.sent = Str(<<>>)]
    /\ Return(hr)
    /\ UNCHANGED <<rows, clock, exInterval, idOf, fate, reads, nextRid>>

\* ------------------------------------------------------------ the sweeper
\* Sweep running between a handler's await and its continuation
SweepAnyTime ==
    /\ SweepEnabled(exInterval)
    /\ rows' = dbExpireValue(rows, clock)
    /\ fate' = [r \in Rids |->
                  IF fate[r] = "live" /\ r \notin RidsIn(rows')
                  THEN "expired" ELSE fate[r]]
    /\ last' = NoLast
    /\ UNCHANGED <<clock, exInterval, handlers, loop, idOf, reads, nextRid>>
\* one run of the setInterval(dbExpireValue, expireInterval) callback
Sweep ==
    /\ SweepEnabled(exInterval)
    /\ Quiet
    /\ rows' = dbExpireValue(rows, clock)
    /\ fate' = [r \in Rids |->
                  IF fate[r] = "live" /\ r \notin RidsIn(rows')
                  THEN "expired" ELSE fate[r]]
    /\ last' = NoLast
    /\ UNCHANGED <<clock, exInterval, handlers, loop, idOf, reads, nextRid>>

\* time passes, up to the next hour the model looks at; the hours pass
\* between requests: a handler is suspended for one turn of the event loop
Tick ==
    /\ Quiet
    /\ clock + TickHours <= MaxTicks * TickHours
    /\ clock' = clock + TickHours
    /\ last' = NoLast
    /\ UNCHANGED <<rows, exInterval, handlers, loop, idOf, fate, reads, nextRid>>

\* the hours between two looks at the system while requests may overlap: two
\* ticks, after which the date of `now - noteLife hours` is later than the
\* date of every row there was
SpanHours == 2 * TickHours

\* the clock moves on by a long step
Span ==
    /\ Quiet
    /\ clock + SpanHours <= MaxSpan * SpanHours
    /\ clock' = clock + SpanHours
    /\ last' = NoLast
    /\ UNCHANGED <<rows, exInterval, handlers, loop, idOf, fate, reads,
                   nextRid>>

Next ==
    \/ \E c \in Ciphers, id \in Ids : StartPost(c, id) /\ Idle
    \/ \E hr \in Suspended, id \in Ids : PostRetry(hr, id) /\ Idle
    \/ \E hr \in Suspended : PostInsert(hr) /\ Idle
    \/ \E hr \in Suspended : PostRespond(hr) /\ Idle
    \/ \E n \in Queries : StartGet(n) /\ Idle
    \/ GetIndex /\ Idle
    \/ \E hr \in Suspended : GetFound(hr) /\ Idle
    \/ \E hr \in Suspended : GetNotFound(hr) /\ Idle
    \/ Sweep /\ Idle
    \/ Span /\ Idle

Spec == Init /\ [][Next]_vars

\* ------------------------------------------------- one request per task
\* a request that is the only one of its task
SeqStartPost(c, id) == Quiet /\ StartPost(c, id)
SeqStartGet(n) == Quiet /\ StartGet(n)
SeqGetIndex == Quiet /\ GetIndex

SeqNext ==
    \/ \E c \in Ciphers, id \in Ids : SeqStartPost(c, id) /\ Idle
    \/ \E hr \in Suspended, id \in Ids : PostRetry(hr, id) /\ Idle
    \/ \E hr \in Suspended : PostInsert(hr) /\ Idle
    \/ \E hr \in Suspended : PostRespond(hr) /\ Idle
    \/ \E n \in Queries : SeqStartGet(n) /\ Idle
    \/ SeqGetIndex /\ Idle
    \/ \E hr \in Suspended : GetFound(hr) /\ Idle
    \/ \E hr \in Suspended : GetNotFound(hr) /\ Idle
    \/ Sweep /\ Idle
    \/ Tick /\ Idle

\* the server whose every task dispatches one request
SeqSpec == Init /\ [][SeqNext]_vars

\* the sequential server with the sweeper on, a generator that can still
\* yield an id that passes the check, and the scheduling of the event loop:
\* time passes however often requests arrive, a continuation that can run
\* does run, the generator does not draw the same taken id for ever, and
\* the timer callback runs every time the loop comes to rest
SomeIdFree == \E id \in Ids : ~Truthy(dbFindData(rows, id))

LiveInit == Init /\ SweepEnabled(exInterval)

\* a submit arrives while the generator can yield an id that passes
LiveStartPost(c, id) == SomeIdFree /\ SeqStartPost(c, id)

LiveNext ==
    \/ \E c \in Ciphers, id \in Ids : LiveStartPost(c, id) /\ Idle
    \/ \E hr \in Suspended, id \in Ids : PostRetry(hr, id) /\ Idle
    \/ \E hr \in Suspended : PostInsert(hr) /\ Idle
    \/ \E hr \in Suspended : PostRespond(hr) /\ Idle
    \/ \E n \in Queries : SeqStartGet(n) /\ Idle
    \/ SeqGetIndex /\ Idle
    \/ \E hr \in Suspended : GetFound(hr) /\ Idle
    \/ \E hr \in Suspended : GetNotFound(hr) /\ Idle
    \/ Sweep /\ Idle
    \/ Tick /\ Idle

LiveSpec ==
    /\ LiveInit
    /\ [][LiveNext]_vars
    /\ SF_vars(Tick /\ Idle)
    /\ SF_vars(Sweep /\ Idle)
    /\ WF_vars(\E hr \in Suspended, id \in Ids : PostRetry(hr, id) /\ Idle)
    /\ WF_vars(\E hr \in Suspended : PostInsert(hr) /\ Idle)
    /\ WF_vars(\E hr \in Suspended : PostRespond(hr) /\ Idle)
    /\ WF_vars(\E hr \in Suspended : GetFound(hr) /\ Idle)
    /\ WF_vars(\E hr \in Suspended : GetNotFound(hr) /\ Idle)

\* --------------------------------------------------- the chain of limiters
\* the ciphertexts of well-formed submits
Notes == {c \in Ciphers : Truthy(c)}

\* the methods of the two routes
Methods == {"GET", "POST"}

\* bounds of the runs through the limiters
MaxRequests == 2      \* requests that arrive over one behaviour
MaxWaits    == 3      \* waits between requests over one behaviour
MaxHeld     == 1      \* requests held back by the slowdown at one time

\* the time between two looks at the limiters, in minutes
WaitMinutes == reqTimeWindow \div 3

\* 'ERROR'
TextERROR == <<69, 82, 82, 79, 82>>

\* reqLimiter counts the request in its own store
reqLimiterHits(L, cl, now) ==
    increment(L.req, cl, now, windowMs(reqTimeWindow))

\* speedLimiter counting every client under one key
speedLimiterHitsOneKey(L, cl, now) ==
    LET s == increment(L.spd, "a", now, windowMs(spdTimeWindow))
    IN  [s EXCEPT ![cl] = s["a"]]
\* speedLimiter counts the request in its own store
speedLimiterHits(L, cl, now) ==
    increment(L.spd, cl, now, windowMs(spdTimeWindow))

\* encLimiter counting in the store of reqLimiter
encLimiterHitsShared(L, cl, now) ==
    [L.enc EXCEPT ![cl] =
        increment(L.req, cl, now, windowMs(encTimeWindow))[cl]]
\* encLimiter counts the request in its own store
encLimiterHits(L, cl, now) ==
    increment(L.enc, cl, now, windowMs(encTimeWindow))

\* admit with app.use(speedLimiter) ahead of app.use(reqLimiter)
admitSlowDownFirst(L, cl, now) ==
    LET r == reqLimiterHits(L, cl, now)
        s == speedLimiterHits(L, cl, now)
        d == slowDownDelay(s[cl].totalHits)
    IN  IF exceeded(r[cl].totalHits, reqMaxRequests)
        THEN [limits |-> [L EXCEPT !.req = r, !.spd = s],
              verdict |-> "req", delay |-> d]
        ELSE [limits |-> [L EXCEPT !.req = r, !.spd = s],
              verdict |-> IF d > 0 THEN "held" ELSE "next", delay |-> d]
\* the middlewares every request of client cl runs through, in the order
\* they are installed: app.use(reqLimiter), app.use(speedLimiter). A
\* reqLimiter over its limit answers and the chain ends there; speedLimiter
\* passes the request on, at once or from a timer after its delay. The
\* result: the stores, who has the request now, the delay in milliseconds
admit(L, cl, now) ==
    LET r == reqLimiterHits(L, cl, now)
        s == speedLimiterHits(L, cl, now)
        d == slowDownDelay(s[cl].totalHits)
    IN  IF exceeded(r[cl].totalHits, reqMaxRequests)
        THEN [limits |-> [L EXCEPT !.req = r],
              verdict |-> "req", delay |-> 0]
        ELSE [limits |-> [L EXCEPT !.req = r, !.spd = s],
              verdict |-> IF d > 0 THEN "held" ELSE "next", delay |-> d]

\* the requests: a submit, a retrieve (the website if n is empty), and a
\* request for a path that has no route of its own
Submit(c)    == [method |-> "POST", path |-> "/encrypt", body |-> c,
                 query |-> <<>>]
Retrieve(n)  == [method |-> "GET", path |-> "/", body |-> JsUndefined,
                 query |-> n]
Elsewhere(m) == [method |-> m, path |-> "*", body |-> JsUndefined,
                 query |-> <<>>]

\* the request is one for app.post('/encrypt', encLimiter, ...)
ForEncrypt(q) == q.method = "POST" /\ q.path = "/encrypt"

\* the routes take over a request the app.use chain has passed on: on
\* POST /encrypt encLimiter counts it and, over its limit, answers
route(L, cl, q, now) ==
    IF ForEncrypt(q)
    THEN LET e == encLimiterHits(L, cl, now)
         IN  [limits |-> [L EXCEPT !.enc = e],
              verdict |-> IF exceeded(e[cl].totalHits, encMaxRequests)
                          THEN "enc" ELSE "next"]
    ELSE [limits |-> L, verdict |-> "next"]

\* the handler of reqLimiter: res.render('note.ejs', { ..., error })
reqLimiterHandler(m) ==
    [NoLast EXCEPT !.method = m, !.outcome = "limited",
                   !.view = "note.ejs", !.error = "too many page requests",
                   !.time = reqTimeWindow]

\* encLimiterHandler answering with the page of reqLimiter
encLimiterHandlerAsPage ==
    [NoLast EXCEPT !.method = "POST", !.outcome = "limited",
                   !.view = "note.ejs", !.error = "too many page requests",
                   !.time = reqTimeWindow]
\* the handler of encLimiter:
\* res.json({ id: 'ERROR', reason: 'encryption', time: `${encTimeWindow}` })
encLimiterHandler ==
    [NoLast EXCEPT !.method = "POST", !.outcome = "limited",
                   !.view = "json", !.id = TextERROR,
                   !.reason = "encryption", !.time = encTimeWindow]

\* a request of client cl arrives while no handler is suspended and runs
\* through reqLimiter and speedLimiter, which end with `verdict`
Arrive(cl, q, verdict) ==
    /\ Quiet
    /\ gate.n < MaxRequests
    /\ LET used == admit(limits, cl, nowMs(clock, minute))
       IN  /\ used.verdict = verdict
           /\ limits' = used.limits
           /\ gate' = [n |-> gate.n + 1, client |-> cl, method |-> q.method,
                       path |-> q.path, verdict |-> verdict,
                       delay |-> used.delay]
    /\ UNCHANGED <<minute, up, attempts, asked, browser>>

\* ReqLimited whose handler goes on to next()
ReqLimitedCallsNext(cl, q) ==
    /\ Arrive(cl, q, "req")
    /\ held' = held
    /\ \/ q.method = "GET" /\ \E n \in Queries : SeqStartGet(n)
       \/ q.method = "POST" /\ \E c \in Ciphers, id \in Ids : SeqStartPost(c, id)
\* reqLimiter is over its limit: its handler answers, nothing else runs
ReqLimited(cl, q) ==
    /\ Arrive(cl, q, "req")
    /\ held' = held
    /\ last' = reqLimiterHandler(q.method)
    /\ UNCHANGED <<rows, clock, exInterval, handlers, loop, idOf, fate, reads,
                   nextRid>>

\* speedLimiter holds the request back: next() is called from a timer
Hold(cl, q) ==
    /\ Arrive(cl, q, "held")
    /\ Len(held) < MaxHeld
    /\ held' = Append(held, [client |-> cl, request |-> q,
                             delay |-> gate'.delay])
    /\ last' = NoLast
    /\ UNCHANGED <<rows, clock, exInterval, handlers, loop, idOf, fate, reads,
                   nextRid>>

\* how a request comes to the routes: 0, as it arrives, speedLimiter having
\* called next() at once; i, from the timer of the i-th request held back
Entries == 0..MaxHeld

\* sequence s without its i-th element
Without(s, i) == SubSeq(s, 1, i - 1) \o SubSeq(s, i + 1, Len(s))

\* the stores when the request comes to the routes
Passed(cl, e) ==
    IF e = 0 THEN admit(limits, cl, nowMs(clock, minute)).limits ELSE limits

\* the request q of client cl comes to the routes, which end with
\* `verdict`. The delays grow with the hits of a window and the timers of a
\* client run out in the order they were set; the timers run out while no
\* handler is suspended
Reach(cl, q, e, verdict) ==
    /\ Quiet
    /\ IF e = 0
       THEN /\ gate.n < MaxRequests
            /\ admit(limits, cl, nowMs(clock, minute)).verdict = "next"
            /\ held' = held
            /\ gate' = [n |-> gate.n + 1, client |-> cl,
                        method |-> q.method, path |-> q.path,
                        verdict |-> verdict, delay |-> 0]
       ELSE /\ e \in 1..Len(held)
            /\ held[e].client = cl /\ held[e].request = q
            /\ \A j \in 1..(e - 1) : held[j].client # cl
            /\ held' = Without(held, e)
            /\ gate' = [n |-> gate.n, client |-> cl,
                        method |-> q.method, path |-> q.path,
                        verdict |-> verdict, delay |-> held[e].delay]
    /\ LET routed == route(Passed(cl, e), cl, q, nowMs(clock, minute))
       IN  routed.verdict = verdict /\ limits' = routed.limits
    /\ UNCHANGED <<minute, up, attempts, asked, browser>>

\* encLimiter is over its limit: its handler answers, the route's does not
EncLimited(cl, c, e) ==
    /\ Reach(cl, Submit(c), e, "enc")
    /\ last' = encLimiterHandler
    /\ UNCHANGED <<rows, clock, exInterval, handlers, loop, idOf, fate, reads,
                   nextRid>>

\* app.all('/{*splat}'): res.redirect("/")
Redirect(m) ==
    /\ last' = [NoLast EXCEPT !.method = m, !.outcome = "redirect",
                              !.view = "/"]
    /\ UNCHANGED <<rows, clock, exInterval, handlers, loop, idOf, fate, reads,
                   nextRid>>

\* the request is handed to the handler of its route
AdmitPost(cl, c, id, e) ==
    Reach(cl, Submit(c), e, "next") /\ SeqStartPost(c, id)
AdmitGet(cl, n, e) == Reach(cl, Retrieve(n), e, "next") /\ SeqStartGet(n)
AdmitIndex(cl, e) == Reach(cl, Retrieve(<<>>), e, "next") /\ SeqGetIndex
AdmitOther(cl, m, e) == Reach(cl, Elsewhere(m), e, "next") /\ Redirect(m)

\* minutes pass between two requests
Wait ==
    /\ Quiet
    /\ held = <<>>
    /\ minute + WaitMinutes <= MaxWaits * WaitMinutes
    /\ minute' = minute + WaitMinutes
    /\ last' = NoLast
    /\ UNCHANGED <<rows, clock, exInterval, handlers, loop, idOf, fate, reads,
                   nextRid, limits, gate, held, up, attempts, asked,
                   browser>>

\* a store entry with `hits` hits whose window ends at minute `ends`
Hits(hits, ends) == [totalHits |-> hits, resetTime |-> nowMs(0, ends)]

\* what the stores can hold for a client when the run starts and the table
\* is empty: nothing; 99 page requests in the last minute; nine notes
\* submitted and read in the last minute; a slowdown window that runs on
\* into the next window of reqLimiter (it was opened later than
\* reqLimiter's), with 101 hits; an encLimiter window opened twenty
\* minutes ago that is used up
Warm ==
    { [req |-> NoHits, spd |-> NoHits, enc |-> NoHits],
      [req |-> Hits(reqMaxRequests - 1, reqTimeWindow),
       spd |-> Hits(reqMaxRequests - 1, spdTimeWindow), enc |-> NoHits],
      [req |-> Hits(2 * (encMaxRequests - 1), reqTimeWindow),
       spd |-> Hits(2 * (encMaxRequests - 1), spdTimeWindow),
       enc |-> Hits(encMaxRequests - 1, encTimeWindow)],
      [req |-> Hits(1, reqTimeWindow),
       spd |-> Hits(reqMaxRequests + 1, WaitMinutes), enc |-> NoHits],
      [req |-> Hits(2, reqTimeWindow), spd |-> Hits(2, spdTimeWindow),
       enc |-> Hits(encMaxRequests, encTimeWindow - 2 * encMaxRequests)] }

\* the server with its sweeper on; client "a" has been here before
AdmitInit ==
    /\ StoreInit
    /\ SweepEnabled(exInterval)
    /\ \E w \in Warm :
         limits = [p \in {"req", "spd", "enc"} |->
                     [cl \in Clients |-> IF cl = "a" THEN w[p] ELSE NoHits]]
    /\ minute = 0
    /\ gate = NoGate
    /\ held = <<>>
    /\ up = TRUE
    /\ attempts = 0
    /\ asked = <<>>
    /\ browser = NoBrowser

\* the requests of the run through the limiters: a submit carries a
\* ciphertext, a retrieve names an id or asks for the website
Requests ==
    {Submit(c) : c \in Notes} \cup {Retrieve(n) : n \in Ids \cup {<<>>}}
       \cup {Elsewhere(m) : m \in Methods}

AdmitNext ==
    \/ \E cl \in Clients, q \in Requests : ReqLimited(cl, q)
    \/ \E cl \in Clients, q \in Requests : Hold(cl, q)
    \/ \E cl \in Clients, c \in Notes, e \in Entries : EncLimited(cl, c, e)
    \/ \E cl \in Clients, c \in Notes, id \in Ids, e \in Entries :
          AdmitPost(cl, c, id, e)
    \/ \E cl \in Clients, n \in Ids, e \in Entries : AdmitGet(cl, n, e)
    \/ \E cl \in Clients, e \in Entries : AdmitIndex(cl, e)
    \/ \E cl \in Clients, m \in Methods, e \in Entries : AdmitOther(cl, m, e)
    \/ \E hr \in Suspended, id \in Ids : PostRetry(hr, id) /\ Idle
    \/ \E hr \in Suspended : PostInsert(hr) /\ Idle
    \/ \E hr \in Suspended : PostRespond(hr) /\ Idle
    \/ \E hr \in Suspended : GetFound(hr) /\ Idle
    \/ \E hr \in Suspended : GetNotFound(hr) /\ Idle
    \/ Sweep /\ Idle
    \/ Wait

AdmitSpec == AdmitInit /\ [][AdmitNext]_vars

\* --------------------------------------------------------- the sender's page
\* texts are sequences of character codes; the Base64 texts of the page are
\* written in one alphabet
\* '+', '-', '/', '_', '=' and '#'
CharPlus  == 43
CharMinus == 45
CharSlash == 47
CharUnder == 95
CharEqual == 61
CharHash  == 35

\* the values of exportAesGcmKeyToBase64(key)
Keys == {<<CharPlus, 65, CharEqual>>, <<66, CharSlash, CharEqual>>}
\* the values of generateRandomArrayBuffer(12).toBase64()
IVs == {<<66>>}
\* the values of the message box, encoded
Messages == {<<7>>, <<8, 9>>}

\* '/?n=' (the scheme and the host of the link are left out)
UrlHead == <<CharSlash, 63, 110, CharEqual>>

\* text without the '=' characters at its end
RECURSIVE StripPadding(_)
StripPadding(t) ==
    IF t # <<>> /\ t[Len(t)] = CharEqual
    THEN StripPadding(SubSeq(t, 1, Len(t) - 1))
    ELSE t

\* base64URLencode: '+' becomes '-', '/' becomes '_', the padding is dropped
base64URLencode(base64String) ==
    StripPadding([i \in 1..Len(base64String) |->
                    IF base64String[i] = CharPlus THEN CharMinus
                    ELSE IF base64String[i] = CharSlash THEN CharUnder
                    ELSE base64String[i]])

\* window.crypto.subtle.encrypt({ name: "AES-GCM", iv }, key, encoded),
\* converted to Base64: a text as long as the message that depends on the
\* message, the key and the IV, followed by the tag
subtleEncrypt(key, iv, encoded) ==
    [i \in 1..Len(encoded) |-> 65 + ((encoded[i] + key[1] + iv[1]) % 26)]
       \o <<65 + ((key[1] + iv[1]) % 26)>>

\* base64iv.concat(base64Cipher)
concatCipherIV(base64iv, base64Cipher) == base64iv \o base64Cipher

\* formBody with the key as a second field
formBodyWithKey(locals) ==
    [cipher |-> concatCipherIV(locals.iv, locals.ciphertext),
     key |-> locals.urlKey]
\* details = { 'cipher': concatCipherIV }, encoded as the form body: the
\* fields of req.body
formBody(locals) ==
    [cipher |-> concatCipherIV(locals.iv, locals.ciphertext)]

\* noteUrl = `https://${host}/?n=${noteId}#`
noteUrl(noteId) == UrlHead \o noteId \o <<CharHash>>

\* data.concat(base64UrlSafe)
concatUrl(data, base64UrlSafe) == data \o base64UrlSafe

\* the place of the first '#' of a link
FirstHash(url) ==
    CHOOSE i \in 1..Len(url) :
       url[i] = CharHash /\ \A j \in 1..(i - 1) : url[j] # CharHash

\* req.query.n of the request for a link: the request ends before the
\* fragment
requestQuery(url) == SubSeq(url, Len(UrlHead) + 1, FirstHash(url) - 1)

\* a step of the page: the server and its table stay as they are
PageStep ==
    /\ last' = NoLast
    /\ UNCHANGED <<rows, clock, exInterval, handlers, loop, idOf, fate, reads,
                   nextRid, limits, minute, gate, held, up, attempts, asked>>

\* encryptMessage up to `await generateAesGcmKey()`: the message is read and
\* an IV generated; one run of the function at a time
PageStart(m, v) ==
    /\ browser.pc \in {"idle", "shown"}
    /\ browser' = [NoBrowser EXCEPT !.pc = "awaitKey", !.message = m,
                                    !.iv = v]
    /\ PageStep

\* the key is generated: on to `await exportAesGcmKeyToBase64(key)`
PageKey(k) ==
    /\ browser.pc = "awaitKey"
    /\ browser' = [browser EXCEPT !.pc = "awaitExport", !.key = k]
    /\ PageStep

\* the key is exported and made URL-safe: on to `await ...encrypt(...)`
PageExport ==
    /\ browser.pc = "awaitExport"
    /\ browser' = [browser EXCEPT !.pc = "awaitEncrypt",
                                  !.urlKey = base64URLencode(browser.key)]
    /\ PageStep

\* the ciphertext is there: the body is built and fetch sends the request
PageEncrypt ==
    /\ browser.pc = "awaitEncrypt"
    /\ LET locals == [browser EXCEPT
                         !.ciphertext = subtleEncrypt(browser.key, browser.iv,
                                                      browser.message)]
       IN  browser' = [locals EXCEPT !.pc = "awaitFetch",
                                     !.body = formBody(locals),
                                     !.wire = "request"]
    /\ PageStep

\* the request of the page arrives at the server: the handler of
\* POST /encrypt starts with the cipher field of the body
Post(id) ==
    /\ browser.wire = "request"
    /\ SeqStartPost(Str(browser.body.cipher), id)
    /\ browser' = [browser EXCEPT !.wire = "none"]
    /\ UNCHANGED <<limits, minute, gate, held, up, attempts, asked>>

\* the handler answers: res.json({ id: noteUrl }) is on its way to the page
Answer(hr) ==
    /\ PostRespond(hr)
    /\ browser' = [browser EXCEPT !.wire = "response",
                                  !.reply = noteUrl(last'.id)]
    /\ UNCHANGED <<limits, minute, gate, held, up, attempts, asked>>

\* the response arrives at the page: on to `await noteUrl.json()`
PageFetched ==
    /\ browser.pc = "awaitFetch"
    /\ browser.wire = "response"
    /\ browser' = [browser EXCEPT !.pc = "awaitJson", !.wire = "none"]
    /\ PageStep

\* the body of the response is parsed: the page shows the link
Receive ==
    /\ browser.pc = "awaitJson"
    /\ browser' = [browser EXCEPT
                      !.pc = "shown",
                      !.url = concatUrl(browser.reply, browser.urlKey)]
    /\ PageStep

\* a request for / with query n arrives: a retrieve, or, without n, the
\* request for the website
Ask(n) ==
    /\ IF Truthy(Str(n)) THEN SeqStartGet(n) ELSE SeqGetIndex
    /\ asked' = n
    /\ UNCHANGED <<limits, minute, gate, held, up, attempts, browser>>

\* the server asked for notes and for its website, the queries on record
QueryNext ==
    \/ \E c \in Ciphers, id \in Ids : SeqStartPost(c, id) /\ Idle
    \/ \E hr \in Suspended, id \in Ids : PostRetry(hr, id) /\ Idle
    \/ \E hr \in Suspended : PostInsert(hr) /\ Idle
    \/ \E hr \in Suspended : PostRespond(hr) /\ Idle
    \/ \E n \in Queries : Ask(n)
    \/ \E hr \in Suspended : GetFound(hr) /\ Idle
    \/ \E hr \in Suspended : GetNotFound(hr) /\ Idle
    \/ Sweep /\ Idle
    \/ Tick /\ Idle

QuerySpec == Init /\ [][QueryNext]_vars

\* the recipient opens the link
OpenLink ==
    /\ browser.url # <<>>
    /\ Ask(requestQuery(browser.url))

\* the page before its first post, and the server with its sweep on
LinkInit == LiveInit

LinkNext ==
    \/ \E m \in Messages, v \in IVs : PageStart(m, v)
    \/ \E k \in Keys : PageKey(k)
    \/ PageExport
    \/ PageEncrypt
    \/ \E id \in Ids : Post(id)
    \/ \E hr \in Suspended, id \in Ids : PostRetry(hr, id) /\ Idle
    \/ \E hr \in Suspended : PostInsert(hr) /\ Idle
    \/ \E hr \in Suspended : Answer(hr)
    \/ PageFetched
    \/ Receive
    \/ OpenLink
    \/ \E n \in Queries : Ask(n)
    \/ \E hr \in Suspended : GetFound(hr) /\ Idle
    \/ \E hr \in Suspended : GetNotFound(hr) /\ Idle
    \/ Sweep /\ Idle
    \/ Tick /\ Idle

\* one sender's page, the server, and the requests for the website and for
\* notes, the links the page has shown among them
LinkSpec == LinkInit /\ [][LinkNext]_vars

\* ------------------------------------------------------------ static files
\* a GET of a file under views/ (a script, a style sheet): express.static,
\* installed ahead of the limiters, answers it and the chain ends there
StaticGet(cl) ==
    /\ Quiet
    /\ gate.n < MaxRequests
    /\ gate' = [n |-> gate.n + 1, client |-> cl, method |-> "GET",
                path |-> "file", verdict |-> "static", delay |-> 0]
    /\ last' = [NoLast EXCEPT !.method = "GET", !.outcome = "static",
                              !.view = "file"]
    /\ UNCHANGED <<rows, clock, exInterval, handlers, loop, idOf, fate, reads,
                   nextRid, limits, minute, held, up, attempts,
                   asked, browser>>

\* app.use(enforce.HTTPS()), the first middleware: a request that came over
\* plain HTTP is answered there, a GET with the redirect to the https URL,
\* any other method with status 403; nothing behind it runs
Insecure(cl, m) ==
    /\ Quiet
    /\ gate.n < MaxRequests
    /\ gate' = [n |-> gate.n + 1, client |-> cl, method |-> m,
                path |-> "http", verdict |-> "https", delay |-> 0]
    /\ last' = [NoLast EXCEPT !.method = m,
                              !.outcome = IF m = "GET" THEN "redirect"
                                          ELSE "forbidden",
                              !.view = "https"]
    /\ UNCHANGED <<rows, clock, exInterval, handlers, loop, idOf, fate, reads,
                   nextRid, limits, minute, held, up, attempts,
                   asked, browser>>

StaticNext ==
    \/ \E cl \in Clients, m \in Methods : Insecure(cl, m)
    \/ \E cl \in Clients : StaticGet(cl)
    \/ AdmitNext

\* the server behind its limiters, asked over plain HTTP and for the files
\* of its pages as well
StaticSpec == AdmitInit /\ [][StaticNext]_vars

\* ------------------------------------------------ failures and long loops
\* the candidate ids the model lets one submit draw
MaxAttempts == 3

\* a submit arrives and draws its first candidate id
CountedStartPost(c, id) ==
    /\ up
    /\ SeqStartPost(c, id)
    /\ attempts' = 1
    /\ UNCHANGED <<limits, minute, gate, held, up, asked, browser>>

\* the candidate collides: the loop draws the next one
CountedRetry(hr, id) ==
    /\ up
    /\ attempts < MaxAttempts
    /\ PostRetry(hr, id)
    /\ attempts' = attempts + 1
    /\ UNCHANGED <<limits, minute, gate, held, up, asked, browser>>

\* the candidate is free: the loop ends with the insert
CountedInsert(hr) ==
    /\ up
    /\ PostInsert(hr)
    /\ attempts' = 0
    /\ UNCHANGED <<limits, minute, gate, held, up, asked, browser>>

\* a statement of dbExpireValue throws: nothing catches the exception of the
\* timer callback, the process ends, and its table and timers end with it
SweepThrows ==
    /\ up
    /\ SweepEnabled(exInterval)
    /\ Quiet
    /\ up' = FALSE
    /\ rows' = <<>>
    /\ last' = [NoLast EXCEPT !.outcome = "uncaught"]
    /\ UNCHANGED <<clock, exInterval, handlers, loop, idOf, fate, reads, nextRid, limits, minute, gate, held, attempts, asked,
                   browser>>

\* the found branch of GET / in which dbDeleteValue throws: res.render has
\* handed the note to the response before, the row stays in the table; the
\* model lets the delete of a note fail once
GetFoundDeleteThrows(hr) ==
    /\ up
    /\ hr.pc = "getAwaitFind"
    /\ Truthy(hr.cipherText)
    /\ reads[hr.seen] = 0
    /\ last' = [NoLast EXCEPT !.method = "GET",
                              !.noteId = hr.noteId, !.met = (hr.seen # 0),
                              !.outcome = "note", !.view = "note.ejs",
                              !.sent = hr.cipherText]
    /\ reads' = [reads EXCEPT ![hr.seen] = @ + 1]
    /\ Return(hr)
    /\ UNCHANGED <<rows, clock, exInterval, idOf, fate, nextRid>>
    /\ Idle

FaultNext ==
    \/ \E c \in Ciphers, id \in Ids : CountedStartPost(c, id)
    \/ \E hr \in Suspended, id \in Ids : CountedRetry(hr, id)
    \/ \E hr \in Suspended : CountedInsert(hr)
    \/ \E hr \in Suspended : up /\ PostRespond(hr) /\ Idle
    \/ \E n \in Queries : up /\ SeqStartGet(n) /\ Idle
    \/ up /\ SeqGetIndex /\ Idle
    \/ \E hr \in Suspended : up /\ GetFound(hr) /\ Idle
    \/ \E hr \in Suspended : up /\ GetNotFound(hr) /\ Idle
    \/ up /\ Sweep /\ Idle
    \/ up /\ Tick /\ Idle
    \/ SweepThrows
    \/ \E hr \in Suspended : GetFoundDeleteThrows(hr)

\* the sequential server whose sweep may fail, the draws of a submit counted
FaultSpec == LiveInit /\ [][FaultNext]_vars

\* ------------------------------------------------------------ young notes
\* the hours between two looks at the table: just under and just over the
\* life of a note
AgeSteps == {noteLife - 1, noteLife + 1}

\* d hours pass between two requests
Pass(d) ==
    /\ Quiet
    /\ clock + d <= MaxTicks * TickHours
    /\ clock' = clock + d
    /\ last' = NoLast
    /\ UNCHANGED <<rows, exInterval, handlers, loop, idOf, fate, reads, nextRid>>

AgeNext ==
    \/ \E c \in Ciphers, id \in Ids : SeqStartPost(c, id) /\ Idle
    \/ \E hr \in Suspended, id \in Ids : PostRetry(hr, id) /\ Idle
    \/ \E hr \in Suspended : PostInsert(hr) /\ Idle
    \/ \E hr \in Suspended : PostRespond(hr) /\ Idle
    \/ \E n \in Queries : SeqStartGet(n) /\ Idle
    \/ SeqGetIndex /\ Idle
    \/ \E hr \in Suspended : GetFound(hr) /\ Idle
    \/ \E hr \in Suspended : GetNotFound(hr) /\ Idle
    \/ Sweep /\ Idle
    \/ \E d \in AgeSteps : Pass(d) /\ Idle

\* the sequential server with the sweeper on, looked at when notes are
\* nearly a day old
AgeSpec == LiveInit /\ [][AgeNext]_vars

\* ------------------------------------------------------------ properties
\* the ids of the rows that a retrieve consumed or a sweep removed
RetiredIds == {idOf[r] : r \in {q \in Rids : fate[q] \in {"consumed", "expired"}}}

\* the retrieves that start in this step, with their locals at the await
StartedGets ==
    {hr \in BagToSet(handlers') :
        hr.pc = "getAwaitFind" /\ CopiesIn(hr, handlers') > CopiesIn(hr, handlers)}

\* C1: exactly-once retrieval.  A retrieve of an id whose row is in the
\* store (an id a submit returned and nobody retrieved yet) returns the
\* note, and no row's note is sent to a reader more than once.
ExactlyOnceRetrieval ==
    /\ (last.method = "GET" /\ last.met) => last.outcome = "note"
    /\ \A r \in Rids : reads[r] <= 1

\* C2: take is indivisible.  Of the retrieves and sweeps that meet a row,
\* at most one observes it as present: the retrieves that read it and have
\* not answered yet, the readers it was sent to, and the sweep that removed
\* it, count to at most one.
Observers(r) ==
    Waiting(handlers, {x \in Suspended : x.pc = "getAwaitFind" /\ x.seen = r
                                          /\ Truthy(x.cipherText)})
    + reads[r] + (IF fate[r] = "expired" THEN 1 ELSE 0)
OneRowPerId ==
    \A i, j \in 1..Len(rows) : i # j => rows[i].uuid # rows[j].uuid

\* C4: uniqueness under concurrency.  However the submits sent to the
\* server interleave, the id a submit is answered with is the id of one row
\* of the store, the row of that submit: no other submit was given the id,
\* and no row shadows another.
ConcurrentSubmitsDistinct ==
    [][last'.outcome = "posted" => Len(RowsOf(rows', last'.id)) = 1]_vars

\* C5, as claimed: once a row was consumed or swept, a retrieve of its id
\* that starts later never finds a note.
NoResurrection ==
    [][\A hr \in StartedGets :
          hr.noteId \in RetiredIds => ~Truthy(hr.cipherText)]_vars

\* C5, amended: once a row was consumed or swept, that row is never in the
\* store again and no retrieve that starts later reads it; a retrieve of
\* its id finds a note only in another row that is live under the same id.
NoResurrectionOfRecord ==
    [][/\ \A r \in Rids :
            fate[r] \in {"consumed", "expired"} => r \notin RidsIn(rows')
       /\ \A hr \in StartedGets : hr.seen = 0 \/ fate[hr.seen] = "live"]_vars

\* C5 witness: a retrieve of the id of a consumed or swept row has been
\* answered with nothing found.
RetiredIdNotFound ==
    /\ last.method = "GET" /\ last.outcome = "notfound" /\ ~last.met
    /\ last.noteId \in RetiredIds

\* C6: sweep completeness.  Right after a sweep at hour clock, no row in
\* the store was created before clock - noteLife.
SweepCompleteness ==
    [][Sweep => \A i \in 1..Len(rows') :
                  ~(BornAt(rows'[i]) < clock - noteLife)]_vars

\* the row of the table with serial r
RowOf(table, r) == CHOOSE row \in {table[i] : i \in 1..Len(table)} : row.rid = r

\* row r is in the store, and was inserted early enough for the clock of
\* the model to reach the day after the day after its insertion
EarlyRow(r) ==
    /\ r \in RidsIn(rows)
    /\ (RowOf(rows, r).created[1] + 2) * HoursPerDay <= MaxTicks * TickHours

\* the rows the sweeper removed
ExpiredIds == {idOf[r] : r \in {q \in Rids : fate[q] = "expired"}}

\* C7, as claimed: a row that is not retrieved is in the end removed by a
\* sweep after its lifetime has passed, and from then on a retrieve of its
\* id never finds a note.
ExpiryDominance ==
    /\ \A r \in Rids : EarlyRow(r) ~> (r \notin RidsIn(rows))
    /\ [][\A hr \in StartedGets :
             hr.noteId \in ExpiredIds => ~Truthy(hr.cipherText)]_vars

\* C7, amended: a row that is not retrieved is in the end removed by a
\* sweep, a sweep removes a row only after its lifetime has passed, and
\* from then on no retrieve reads that row: a retrieve of its id finds a
\* note only in another row that is live under the same id.
ExpiryDominanceOfRecord ==
    /\ \A r \in Rids : EarlyRow(r) ~> (r \notin RidsIn(rows))
    /\ [][/\ \A r \in Rids :
                (fate[r] = "live" /\ fate'[r] = "expired")
                   => BornAt(RowOf(rows, r)) + noteLife < clock
           /\ \A hr \in StartedGets :
                hr.seen = 0 \/ fate[hr.seen] # "expired"]_vars

\* C7 witness: a row that no reader was sent has been removed by a sweep,
\* and a retrieve of its id has then been answered with nothing found.
UnreadRowExpired ==
    \E r \in Rids : /\ fate[r] = "expired" /\ reads[r] = 0
                     /\ last.method = "GET" /\ last.outcome = "notfound"
                     /\ last.noteId = idOf[r]

\* C8: with the sweep interval set to 0 no sweep runs, and a row leaves the
\* store only in the step of a retrieve of its id that found a note.
NoSweepWhenDisabled ==
    [][exInterval = 0 =>
         /\ ~Sweep
         /\ \A r \in RidsIn(rows) \ RidsIn(rows') :
              \E hr \in Suspended : /\ hr.pc = "getAwaitFind"
                                    /\ Truthy(hr.cipherText)
                                    /\ hr.noteId = idOf[r]
                                    /\ handlers' = handlers (-) SetToBag({hr})]_vars

\* C8 witness: with the interval 0, a row inserted at hour 0 is still in
\* the store two lifetimes later, and another row has left by a retrieve.
OldNoteKeptWhenDisabled ==
    /\ exInterval = 0
    /\ clock >= 2 * noteLife
    /\ \E i \in 1..Len(rows) : BornAt(rows[i]) = 0
    /\ \E r \in Rids : fate[r] = "consumed"

\* C9: a retrieve whose find met no row is answered with the same response,
\* whether its id was never issued, was consumed, or was swept.
NotFoundIndistinguishable ==
    (last.method = "GET" /\ last.noteId # <<>> /\ ~last.met)
       => /\ last.outcome = "notfound"
          /\ last.view = "note.ejs"
          /\ last.sent = Str(<<>>)
          /\ last.id = <<>>

\* C9 witness: a retrieve of the id of a swept row, with no row left under
\* that id, has been answered.
SweptIdRetrieved ==
    /\ last.method = "GET" /\ ~last.met
    /\ \E r \in Rids : idOf[r] = last.noteId /\ fate[r] = "expired"
    /\ RowsOf(rows, last.noteId) = <<>>

\* the submits waiting for their check whose cipher is empty or missing
EmptySubmits(b) ==
    Waiting(b, {x \in BagToSet(b) : x.pc = "postAwaitFind" /\ ~Truthy(x.input)})

\* C10: a submit with an empty or missing cipher is rejected without
\* reaching the store: the step that ends its wait inserts nothing and
\* answers with an error.
EmptySubmitRejected ==
    [][EmptySubmits(handlers') < EmptySubmits(handlers)
          => (rows' = rows /\ last'.outcome = "error")]_vars

\* ------------------------------------------------ properties of the limiters
\* this step is the arrival of a request of client cl
ArrivalOf(cl) == gate'.n = gate.n + 1 /\ gate'.client = cl

\* in this step a request of client cl comes to the routes, as it arrives
\* or from the timer that held it back
RoutesOf(cl) ==
    /\ gate'.client = cl
    /\ gate'.verdict \in {"enc", "next"}
    /\ gate'.n = gate.n + 1 \/ Len(held') < Len(held)

\* the request of this step is a submit
IsSubmit == gate'.method = "POST" /\ gate'.path = "/encrypt"

\* the window of a store entry has not run out at time now
WindowOpen(entry, now) == entry.resetTime > now

\* reqLimiter holds a full window of client cl
OverCap(cl) ==
    /\ WindowOpen(limits.req[cl], nowMs(clock, minute))
    /\ limits.req[cl].totalHits >= reqMaxRequests

\* encLimiter holds a full window of client cl
OverWriteCap(cl) ==
    /\ WindowOpen(limits.enc[cl], nowMs(clock, minute))
    /\ limits.enc[cl].totalHits >= encMaxRequests

\* C11: for each client, the first reqMaxRequests requests of a window of
\* reqTimeWindow minutes pass the global limiter, every further request in
\* that window is rejected and leaves the end of the window where it was,
\* and the first request after the window has run out passes and opens a
\* new window with a count of one.
GlobalLimiterCap ==
    [][\A cl \in Clients : ArrivalOf(cl) =>
          LET now == nowMs(clock, minute)
              was == limits.req[cl]
              is  == limits'.req[cl]
          IN  /\ (WindowOpen(was, now) /\ was.totalHits < reqMaxRequests)
                    => /\ gate'.verdict # "req"
                       /\ is = [was EXCEPT !.totalHits = @ + 1]
              /\ (WindowOpen(was, now) /\ was.totalHits >= reqMaxRequests)
                    => /\ gate'.verdict = "req"
                       /\ last' = reqLimiterHandler(gate'.method)
                       /\ is.resetTime = was.resetTime
              /\ ~WindowOpen(was, now)
                    => /\ gate'.verdict # "req"
                       /\ is = [totalHits |-> 1,
                                resetTime |-> now + windowMs(reqTimeWindow)]]_vars

\* C11 witness: ten minutes into its window, client "a" has been rejected as
\* the first request over the cap.
GlobalCapReached ==
    /\ gate.verdict = "req" /\ gate.client = "a"
    /\ minute = 2 * WaitMinutes
    /\ limits.req["a"].totalHits = reqMaxRequests + 1
    /\ last = reqLimiterHandler(gate.method)

\* C12: of the submits of a client that come to the route, at once or after
\* the slowdown has held them back, the first encMaxRequests of a window of
\* encTimeWindow minutes are handed to
\* the route's handler; every further one is answered with the JSON error
\* whose reason is 'encryption', which is not the answer of the global
\* limiter, carries no id, and comes with no row inserted.
WriteLimiterCap ==
    [][\A cl \in Clients :
          (RoutesOf(cl) /\ IsSubmit) =>
             /\ ~OverWriteCap(cl)
                   => /\ gate'.verdict = "next"
                      /\ PostsInFlight' = PostsInFlight + 1
             /\ OverWriteCap(cl)
                   => /\ gate'.verdict = "enc"
                      /\ last'.view = "json"
                      /\ last'.reason = "encryption"
                      /\ last'.view # reqLimiterHandler("POST").view
                      /\ last'.error # reqLimiterHandler("POST").error
                      /\ last'.id \notin Ids
                      /\ UNCHANGED <<rows, handlers, loop, nextRid>>]_vars

\* C12 witness: the tenth submit of client "a" in the window was stored, and
\* the eleventh has been answered by the write limiter.
WriteCapReached ==
    /\ gate.verdict = "enc" /\ gate.client = "a"
    /\ limits.enc["a"].totalHits = encMaxRequests + 1
    /\ Len(rows) = 1
    /\ last = encLimiterHandler

\* C13: a request of a client that is over the global cap does not reach the
\* store: no handler starts, no row is inserted and none is removed.
GlobalRejectionLeavesStore ==
    [][\A cl \in Clients : (ArrivalOf(cl) /\ OverCap(cl)) =>
          UNCHANGED <<rows, handlers, loop, idOf, fate, reads, nextRid>>]_vars

\* C13 witness: a retrieve of a client over the global cap has been rejected
\* while a note is in the table.
RetrieveRejectedNoteKept ==
    /\ gate.verdict = "req" /\ gate.method = "GET"
    /\ rows # <<>>
    /\ \E r \in Rids : fate[r] = "live"

\* C14: the request that the slowdown counts as the k-th of its window is
\* delayed by 0 if k <= spdMaxRequests and else by the smaller of
\* (k - spdMaxRequests) * 100 ms and spdMaxDelayTime seconds; the delay never
\* exceeds spdMaxDelayTime seconds, and it is not smaller than the delay of
\* the request the same client sent just before in the same window.
SlowdownDelay ==
    [][\A cl \in Clients :
          (ArrivalOf(cl) /\ limits'.spd[cl] # limits.spd[cl]) =>
             LET k == limits'.spd[cl].totalHits
             IN  /\ k <= spdMaxRequests => gate'.delay = 0
                 /\ k > spdMaxRequests
                       => gate'.delay = Min((k - spdMaxRequests) * 100,
                                            spdMaxDelayTime * 1000)
                 /\ gate'.delay <= spdMaxDelayTime * 1000
                 /\ (/\ gate.client = cl /\ gate.verdict # "req"
                     /\ limits'.spd[cl].resetTime = limits.spd[cl].resetTime)
                       => gate'.delay >= gate.delay]_vars

\* C14 witness: a request has been delayed by the largest delay, its product
\* with 100 ms being larger.
SlowdownAtMaxDelay ==
    /\ gate.verdict = "next"
    /\ gate.delay = spdMaxDelayTime * 1000
    /\ (limits.spd[gate.client].totalHits - spdMaxRequests) * 100
          > spdMaxDelayTime * 1000

\* C15: a submit that the write limiter rejects has not been delayed by the
\* slowdown.
WriteRejectionUndelayed ==
    gate.verdict = "enc" => gate.delay = 0

\* C16: a request of a client that is over the global cap is not delayed and
\* is counted neither by the slowdown nor by the write limiter.
GlobalRejectionUndelayed ==
    [][\A cl \in Clients : (ArrivalOf(cl) /\ OverCap(cl)) =>
          /\ gate'.delay = 0
          /\ limits'.spd = limits.spd
          /\ limits'.enc = limits.enc]_vars

\* C16 witness: a submit of client "a" has been rejected by the global
\* limiter; the slowdown has counted the hundred requests before it and the
\* write limiter none.
SubmitRejectedUncounted ==
    /\ gate.verdict = "req" /\ gate.method = "POST" /\ gate.client = "a"
    /\ limits.req["a"].totalHits = reqMaxRequests + 1
    /\ limits.spd["a"].totalHits = reqMaxRequests
    /\ limits.enc["a"].totalHits = 0

\* C17: a GET leaves the counters of the write limiter as they are, and so
\* does a submit that the global limiter rejects or the slowdown holds back;
\* a request changes the counters of its own client only; and a submit that
\* comes to the route is rejected by the write limiter exactly if the write
\* limiter has counted encMaxRequests submits of that client in its open
\* window, whatever the other two limiters have counted.
IndependentCounters ==
    [][\A cl \in Clients : (ArrivalOf(cl) \/ RoutesOf(cl)) =>
          /\ (gate'.method = "GET" \/ gate'.verdict \in {"req", "held"})
                => limits'.enc = limits.enc
          /\ \A p \in {"req", "spd", "enc"}, o \in Clients \ {cl} :
                limits'[p][o] = limits[p][o]
          /\ (RoutesOf(cl) /\ IsSubmit)
                => /\ gate'.verdict = "enc" <=> OverWriteCap(cl)
                   /\ limits'.enc[cl].totalHits =
                         (IF WindowOpen(limits.enc[cl], nowMs(clock, minute))
                          THEN limits.enc[cl].totalHits ELSE 0) + 1]_vars

\* C17 witness: the write limiter has rejected a submit of a client of whom
\* the global limiter has counted fewer than encMaxRequests requests.
WriteRejectedAtLowGlobalCount ==
    /\ gate.verdict = "enc"
    /\ limits.req[gate.client].totalHits < encMaxRequests
    /\ limits.spd[gate.client].totalHits < encMaxRequests

\* ------------------------------------- properties of failures and of age
\* C18: a sweep tick that throws leaves the server, and with it the timer of
\* the sweeper, running.
SweepFailureSurvived ==
    last.outcome = "uncaught" => up

\* C19: a submit gives up with an error before it has drawn as many
\* candidate ids in a row as the generator is let to yield.
RetriesBounded ==
    attempts < MaxAttempts

\* the age of row r, in hours
Age(r) == clock - BornAt(r)

\* C20: a sweep leaves every row in the table that is younger than noteLife
\* hours.
SweepKeepsYoung ==
    [][Sweep => \A i \in 1..Len(rows) :
                   Age(rows[i]) < noteLife => rows[i].rid \in RidsIn(rows')]_vars

\* C20 witness: the sweep of hour 48 has removed the first note, and the
\* note inserted 23 hours before is in the table.
YoungNoteKept ==
    /\ clock = 2 * noteLife
    /\ fate[1] = "expired"
    /\ \E i \in 1..Len(rows) : Age(rows[i]) = noteLife - 1

\* ------------------------------------------------ properties of retrieval
\* C21: whatever the order of the steps of retrieves and sweep ticks, a row
\* that a sweep removed has been sent to no reader, and a row that was sent
\* to a reader is not among the rows a sweep removes.
ConsumedXorExpired ==
    [][\A r \in Rids :
          /\ (fate'[r] = "expired") => reads'[r] = 0
          /\ (Sweep /\ r \in RidsIn(rows) /\ r \notin RidsIn(rows'))
                => reads[r] = 0]_vars

\* C21 witness: of two notes old enough to be swept, one has been read and
\* the other has been removed by a sweep.
OneReadOneSwept ==
    /\ \E r \in Rids : fate[r] = "consumed" /\ reads[r] > 0
    /\ \E r \in Rids : fate[r] = "expired" /\ reads[r] = 0
    /\ clock = SpanHours

\* C22: every request of a client is counted by the global limiter, and a
\* request of a client over the global cap is rejected by it, the requests
\* for static files included.
EveryRequestCounted ==
    [][\A cl \in Clients : ArrivalOf(cl) =>
          /\ limits'.req[cl] # limits.req[cl]
          /\ OverCap(cl) => gate'.verdict = "req"]_vars

\* C23: a note that has been written to a response is no longer in the
\* table, whatever happens to the handler after the response.
DeliveredNoteGone ==
    \A r \in Rids : reads[r] > 0 => r \notin RidsIn(rows)

\* C24: a request that gets past the global limiter as more than the
\* spdMaxRequests-th of its slowdown window is held back, not answered; a
\* request that was held back is handed on when its timer runs out, to the
\* handler of its route or, a submit over the write cap, to the write
\* limiter, and is not answered by the global limiter; and a client the
\* slowdown has delayed in this window is rejected by the global limiter
\* once it is over the global cap.
SlowdownBesidesLimits ==
    [][\A cl \in Clients :
          /\ (/\ ArrivalOf(cl) /\ ~OverCap(cl)
              /\ limits'.spd[cl].totalHits > spdMaxRequests)
                => /\ gate'.delay > 0
                   /\ gate'.verdict = "held"
                   /\ Len(held') = Len(held) + 1
                   /\ held'[Len(held')].client = cl
                   /\ held'[Len(held')].delay = gate'.delay
                   /\ last' = NoLast
          /\ (gate'.client = cl /\ Len(held') < Len(held))
                => /\ gate'.delay > 0
                   /\ gate'.verdict =
                         (IF IsSubmit /\ OverWriteCap(cl)
                          THEN "enc" ELSE "next")
                   /\ last' # NoLast \/ handlers' # handlers
                   /\ last' # reqLimiterHandler(gate'.method)
          /\ (/\ ArrivalOf(cl) /\ OverCap(cl)
              /\ WindowOpen(limits.spd[cl], nowMs(clock, minute))
              /\ limits.spd[cl].totalHits > spdMaxRequests)
                => /\ gate'.verdict = "req"
                   /\ last' = reqLimiterHandler(gate'.method)]_vars

\* C24 witness: the two requests so far were client "a"'s, ten minutes
\* apart in one window: the slowdown delayed the first, its hundredth hit,
\* and the global limiter has rejected the second.
DelayedThenRejected ==
    /\ gate.n = 2 /\ gate.client = "a" /\ gate.verdict = "req"
    /\ held = <<>>
    /\ minute = 2 * WaitMinutes
    /\ limits.req["b"] = NoHits
    /\ limits.req["a"].totalHits = reqMaxRequests + 1
    /\ limits.spd["a"].totalHits = reqMaxRequests
    /\ limits.spd["a"].resetTime = limits.req["a"].resetTime

\* the submits that wait for the check of their candidate id
Submits == {hr \in Suspended : hr.pc = "postAwaitFind"}

\* C25: a submit that is in its loop is answered in the end, provided the
\* generator comes to yield an id that is not live; a candidate that is live
\* is discarded with nothing inserted and nothing answered; a candidate that
\* is not live ends the loop with the insert of exactly one row, which holds
\* the candidate, the blob and the time of the insert; and the answer
\* carries the id of that row.
SubmitTerminates ==
    /\ (Submits # {}) ~> (last.outcome = "posted")
    /\ [][/\ \A hr \in Submits : handlers' # handlers =>
                IF RowsOf(rows, hr.noteId) # <<>>
                THEN /\ rows' = rows
                     /\ last' = NoLast
                     /\ \E to \in BagToSet(handlers') : to.pc = "postAwaitFind"
                ELSE /\ Len(rows') = Len(rows) + 1
                     /\ SubSeq(rows', 1, Len(rows)) = rows
                     /\ rows'[Len(rows')].uuid = hr.noteId
                     /\ hr.input.t = "string"
                           => rows'[Len(rows')].note = hr.input
                     /\ BornAt(rows'[Len(rows')]) = clock
           /\ \A ha \in Suspended :
                (ha.pc = "postAwaitAdd" /\ handlers' # handlers)
                   => /\ last'.outcome = "posted"
                      /\ last'.id = ha.noteId
                      /\ rows' = rows
                      /\ rows[Len(rows)].uuid = last'.id]_vars

\* the rows of a table that are stored under another uuid
OtherRows(table, uuid) == SelectSeq(table, LAMBDA r : r.uuid # uuid)

\* C26: the step that answers a retrieve of an id leaves every row stored
\* under another id in the table as it is and adds no row, and if its answer
\* is that nothing was found it leaves the whole table as it is.
RetrieveFrame ==
    [][(last'.method = "GET" /\ last'.noteId # <<>>) =>
          /\ OtherRows(rows', last'.noteId) = OtherRows(rows, last'.noteId)
          /\ \A j \in 1..Len(rows') : \E i \in 1..Len(rows) : rows[i] = rows'[j]
          /\ last'.outcome = "notfound" => rows' = rows]_vars

\* C26 witness: a retrieve has been answered with its note while a note
\* under another id is in the table.
NoteReadOtherKept ==
    /\ last.method = "GET" /\ last.outcome = "note"
    /\ rows # <<>>
    /\ \A i \in 1..Len(rows) : rows[i].uuid # last.noteId

\* the stores as they would be had no client but cl ever sent a request
Alone(L, cl) ==
    [p \in {"req", "spd", "enc"} |->
        [o \in Clients |-> IF o = cl THEN L[p][o] ELSE NoHits]]

\* what the limiters do with a request of client cl for method m and path
\* p at time now, given their stores L: with an arrival, reqLimiter and
\* speedLimiter and, if they pass it on at once, the route; with a timer
\* that runs out, the route
limited(L, cl, m, p, now, arrival) ==
    LET q    == [method |-> m, path |-> p]
        used == admit(L, cl, now)
    IN  IF arrival /\ used.verdict # "next"
        THEN used
        ELSE [limits  |-> route(IF arrival THEN used.limits ELSE L,
                                cl, q, now).limits,
              verdict |-> route(IF arrival THEN used.limits ELSE L,
                                cl, q, now).verdict,
              delay   |-> 0]

\* C27: a request of a client changes no counter of another client, and it
\* is admitted, held back or rejected, and counted, exactly as it would be
\* had the other clients sent nothing, both when it arrives and when the
\* slowdown passes it on.
ClientIsolation ==
    [][\A cl \in Clients : (ArrivalOf(cl) \/ RoutesOf(cl)) =>
          LET alone == limited(Alone(limits, cl), cl, gate'.method,
                               gate'.path, nowMs(clock, minute),
                               ArrivalOf(cl))
          IN  /\ \A p \in {"req", "spd", "enc"}, o \in Clients \ {cl} :
                    limits'[p][o] = limits[p][o]
              /\ gate'.verdict = alone.verdict
              /\ ArrivalOf(cl) => gate'.delay = alone.delay
              /\ \A p \in {"req", "spd", "enc"} :
                    limits'[p][cl] = alone.limits[p][cl]]_vars

\* C27 witness: client "b" has been served without delay while the request
\* of client "a" that used up the global cap is held back by the slowdown.
OtherClientServed ==
    /\ gate.client = "b" /\ gate.verdict = "next" /\ gate.delay = 0
    /\ held # <<>> /\ held[1].client = "a"
    /\ limits.req["a"].totalHits = reqMaxRequests
    /\ limits.req["b"].totalHits = 1

\* ---------------------------------------------------- properties of links
\* text a is the beginning of text b
IsPrefix(a, b) == Len(a) <= Len(b) /\ SubSeq(b, 1, Len(a)) = a

\* C28: a retrieve whose query is an id followed by more text is answered,
\* and changes the table, exactly as the retrieve of that id would be: the
\* note found under the id is sent and its row removed, or nothing is found
\* and the table stays as it is.
PrefixLookup ==
    [][\A hr \in Suspended, id \in Ids :
          (hr.pc = "getAwaitFind" /\ handlers' # handlers /\ IsPrefix(id, asked))
             => /\ last'.noteId = id
                /\ last'.sent = (IF Truthy(dbFindData(rows, id))
                                 THEN dbFindData(rows, id) ELSE Str(<<>>))
                /\ rows' = (IF Truthy(dbFindData(rows, id))
                            THEN dbDeleteValue(rows, id) ELSE rows)]_vars

\* C28 witness: a retrieve whose query is longer than an id has been
\* answered with the note stored under the id, and the row is gone.
SuffixedQueryServed ==
    /\ Len(asked) > IdLen
    /\ last.method = "GET" /\ last.outcome = "note"
    /\ Truthy(last.sent)
    /\ IsPrefix(last.noteId, asked)
    /\ RowsOf(rows, last.noteId) = <<>>
    /\ \E r \in Rids : fate[r] = "consumed" /\ idOf[r] = last.noteId

\* C29: the body the page posts has the one field cipher, which is the IV
\* followed by the ciphertext, and that text is what the handler of the
\* submit receives; the link of the response ends with '#', and the link
\* the page shows is that link followed by the URL-safe key, which so stands
\* behind the first '#' and is not part of the request for the link.
KeyStaysOnClient ==
    /\ DOMAIN browser.body = {"cipher"}
    /\ browser.pc \in {"awaitFetch", "awaitJson", "shown"}
          => browser.body.cipher = browser.iv \o browser.ciphertext
    /\ \A hr \in Suspended :
          hr.pc = "postAwaitFind"
             => hr.input = Str(browser.iv \o browser.ciphertext)
    /\ browser.reply # <<>>
          => /\ browser.reply[Len(browser.reply)] = CharHash
             /\ FirstHash(browser.reply) = Len(browser.reply)
    /\ browser.url # <<>>
          => /\ browser.url = browser.reply \o base64URLencode(browser.key)
             /\ FirstHash(browser.url) = Len(browser.reply)
             /\ UrlHead \o requestQuery(browser.url) \o <<CharHash>>
                   = browser.reply

\* C29 witness: the page has shown its link, the link has been requested,
\* and the request has been answered with the posted ciphertext.
LinkOpened ==
    /\ browser.pc = "shown"
    /\ browser.url # <<>>
    /\ asked = requestQuery(browser.url)
    /\ last.outcome = "note"
    /\ last.sent = Str(browser.body.cipher)

====
